---- MODULE Spec2Model ----
(***************************************************************************)
(* Tamper synthesis pipeline of invoice-fraud-detector                     *)
(* (src/src/tamper_generator.py): the six perturbation operators, the      *)
(* operator selector tamper_image and the batch driver                     *)
(* generate_tampered_images, over a model of the two corpus directories.   *)
(*                                                                         *)
(* A raster is a record [ok, w, h, bg, ink]: ok says whether PIL can       *)
(* decode the file, w and h are its pixel dimensions, bg is the colour of  *)
(* the page and ink an optional black rectangle printed on it.  Random     *)
(* draws are nondeterministic choices; an operator is the set of results   *)
(* it can produce.                                                         *)
(***************************************************************************)
EXTENDS Integers, Sequences, FiniteSets, TLC

\* ---------------------------------------------------------------- bounds
MaxN == 2        \* largest target count n passed to the driver
MaxFiles == 2    \* largest number of entries in the source directory
MaxRuns == 2     \* invocations of the driver in one behaviour

\* ------------------------------------------------------------- constants
REAL_DIR == "data/real"
TAMPERED_DIR == "data/tampered"
\* A directory is [exists, files]; NoDir is a path that is no directory.
NoDir == [exists |-> FALSE, files |-> <<>>]
Dir(files) == [exists |-> TRUE, files |-> files]

Procs == {1, 2}          \* processes that may run the script
SeqCallers == {1}        \* the single caller of the sequential specification

Min(a, b) == IF a <= b THEN a ELSE b

\* ---------------------------------------------------------------- rasters
Unreadable == [ok |-> FALSE, w |-> 0, h |-> 0, bg |-> "none", ink |-> <<>>]
Inked400 == [ok |-> TRUE, w |-> 400, h |-> 300, bg |-> "white",
             ink |-> <<100, 100, 300, 120>>]
Small256 == [ok |-> TRUE, w |-> 256, h |-> 256, bg |-> "white", ink |-> <<>>]

\* The files a source directory may hold.
Images == {Unreadable, Inked400, Small256}

\* Colour of pixel px = <<x, y>> of a raster.
Pixel(img, px) ==
    IF /\ img.ink # <<>>
       /\ img.ink[1] <= px[1] /\ px[1] <= img.ink[3]
       /\ img.ink[2] <= px[2] /\ px[2] <= img.ink[4]
    THEN "black"
    ELSE img.bg

InImage(img, px) ==
    /\ 0 <= px[1] /\ px[1] < img.w
    /\ 0 <= px[2] /\ px[2] < img.h

\* ------------------------------------------------------ the random source
\* random.randint(a, b): an integer of a..b, ValueError when the range is
\* empty.  The draws explored are the two ends of the range.
RandInt(a, b) == {v \in a..b : v = a \/ v = b}

EmptyRange(a, b) == a > b

\* random.choice(seq): any element of the sequence.
RandomChoiceSkipLast(seq) == {seq[k] : k \in 1..(Len(seq) - 1)}

RandomChoice(seq) == {seq[k] : k \in 1..Len(seq)}

\* random.sample(population, k): the sequences of k distinct elements.
SampleWithReplacement(population, k) == [1..k -> population]

Sample(population, k) ==
    {s \in [1..k -> population] : \A a, b \in 1..k : a # b => s[a] # s[b]}

\* ----------------------------------------------------- operator results
ValueError == [raised |-> TRUE, w |-> 0, h |-> 0, changed |-> FALSE]

\* The raster after `fill` is painted over the pixels of `footprint`: its
\* size is the input's, and it differs from the input iff some painted
\* pixel of the image had another colour.
Drawn(img, footprint, fill) ==
    [raised |-> FALSE, w |-> img.w, h |-> img.h,
     changed |-> \E px \in footprint : InImage(img, px) /\ Pixel(img, px) # fill]

\* ImageDraw.rectangle([x1, y1, x2, y2]): both corners included.
Rectangle(x1, y1, x2, y2) == (x1..x2) \X (y1..y2)

\* ImageDraw.ellipse([x1, y1, x2, y2]): the pixels inside the inscribed
\* ellipse of the box.
Ellipse(x1, y1, x2, y2) ==
    {px \in Rectangle(x1, y1, x2, y2) :
        ((2 * px[1] - x1 - x2) * (2 * px[1] - x1 - x2) * (y2 - y1) * (y2 - y1))
      + ((2 * px[2] - y1 - y2) * (2 * px[2] - y1 - y2) * (x2 - x1) * (x2 - x1))
      <= (x2 - x1) * (x2 - x1) * (y2 - y1) * (y2 - y1)}

apply_black_box(img) ==
    LET w == img.w
        h == img.h
    IN  IF EmptyRange(50, w \div 2) \/ EmptyRange(50, h \div 2)
        THEN {ValueError}
        ELSE {Drawn(img, Rectangle(x1, y1, x1 + dx, y1 + dy), "black") :
                 x1 \in RandInt(50, w \div 2), y1 \in RandInt(50, h \div 2),
                 dx \in RandInt(50, 150), dy \in RandInt(20, 50)}

\* The glyphs of "FAKE $999" depend on the font found; the footprint is the
\* cell of the first glyph at the font size asked for, anchored at (x, y).
apply_fake_text(img) ==
    LET w == img.w
        h == img.h
    IN  IF EmptyRange(100, w - 150) \/ EmptyRange(100, h - 50)
        THEN {ValueError}
        ELSE {Drawn(img, Rectangle(x, y, x + 22, y + 22), "red") :
                 x \in RandInt(100, w - 150), y \in RandInt(100, h - 50)}

\* crop((x, y, x + 150, y + 50)) excludes the right and bottom edge; the
\* Gaussian blur of a patch changes it iff the patch is not of one colour.
apply_blur_patch(img) ==
    LET w == img.w
        h == img.h
    IN  IF EmptyRange(50, w - 200) \/ EmptyRange(50, h - 100)
        THEN {ValueError}
        ELSE {Drawn(img, Rectangle(x, y, x + 149, y + 49), Pixel(img, <<x, y>>)) :
                 x \in RandInt(50, w - 200), y \in RandInt(50, h - 100)}

apply_whiteout(img) ==
    LET w == img.w
        h == img.h
    IN  IF EmptyRange(100, w - 200) \/ EmptyRange(100, h - 100)
        THEN {ValueError}
        ELSE {Drawn(img, Rectangle(x1, y1, x1 + dx, y1 + dy), "white") :
                 x1 \in RandInt(100, w - 200), y1 \in RandInt(100, h - 100),
                 dx \in RandInt(80, 150), dy \in RandInt(20, 40)}

overlay_random_shape(img) ==
    LET w == img.w
        h == img.h
    IN  IF EmptyRange(50, w - 100) \/ EmptyRange(50, h - 100)
        THEN {ValueError}
        ELSE {Drawn(img,
                    IF shape = "ellipse"
                    THEN Ellipse(x, y, x + size, y + size)
                    ELSE Rectangle(x, y, x + size, y + size),
                    color) :
                 x \in RandInt(50, w - 100), y \in RandInt(50, h - 100),
                 size \in RandInt(30, 60),
                 shape \in RandomChoice(<<"ellipse", "rectangle">>),
                 color \in RandomChoice(<<"blue", "purple", "grey">>)}

\* Three polylines of five points, 15 pixels apart, each point with its own
\* vertical jitter; the footprint is the set of their points.
apply_fake_signature(img) ==
    LET w == img.w
        h == img.h
    IN  IF EmptyRange(100, w - 200) \/ EmptyRange(h - 150, h - 80)
        THEN {ValueError}
        ELSE {Drawn(img,
                    {<<x + (k * 15), y + curves[c][k]>> : c \in 1..3, k \in 0..4},
                    "black") :
                 x \in RandInt(100, w - 200), y \in RandInt(h - 150, h - 80),
                 curves \in [1..3 -> [0..4 -> RandInt(-10, 10)]]}

\* The list built by tamper_image.
tamper_methods ==
    <<"apply_black_box", "apply_fake_text", "apply_blur_patch",
      "apply_whiteout", "overlay_random_shape", "apply_fake_signature">>

\* method(img)
Call(name, img) ==
    CASE name = "apply_black_box" -> apply_black_box(img)
      [] name = "apply_fake_text" -> apply_fake_text(img)
      [] name = "apply_blur_patch" -> apply_blur_patch(img)
      [] name = "apply_whiteout" -> apply_whiteout(img)
      [] name = "overlay_random_shape" -> overlay_random_shape(img)
      [] name = "apply_fake_signature" -> apply_fake_signature(img)

\* The results of every operator on every decodable raster, computed once.
Results ==
    [img \in {r \in Images : r.ok} |->
        [name \in RandomChoice(tamper_methods) |-> Call(name, img)]]

\* ------------------------------------------------------------ file system
\* os.listdir(dir): the names of the entries of a directory.
ListDir(fsys, dir) == DOMAIN fsys[dir].files

\* Image.open(path): the stored raster.
Open(fsys, path) == fsys[path[1]].files[path[2]]

\* Image.save(path): creates the file or replaces its content; the other
\* entries of the directory stay.
SaveClobber(fsys, path, img) ==
    [fsys EXCEPT ![path[1]].files = [name \in {path[2]} |-> img]]

SaveNoOverwrite(fsys, path, img) ==
    IF path[2] \in DOMAIN fsys[path[1]].files
    THEN fsys
    ELSE [fsys EXCEPT ![path[1]].files =
             [name \in (DOMAIN @) \cup {path[2]} |->
                 IF name = path[2] THEN img ELSE @[name]]]

Save(fsys, path, img) ==
    [fsys EXCEPT ![path[1]].files =
        [name \in (DOMAIN @) \cup {path[2]} |->
            IF name = path[2] THEN img ELSE @[name]]]

\* os.path.join(REAL_DIR, filename)
RealPath(filename) == <<REAL_DIR, filename>>

\* os.path.join(TAMPERED_DIR, f"tampered_{i}.jpg")
TamperPathOneBased(k) == <<TAMPERED_DIR, <<"tampered_", k + 1, ".jpg">>>>

TamperPath(k) == <<TAMPERED_DIR, <<"tampered_", k, ".jpg">>>>

\* Names of the entries a source directory may hold.
RealName(k) == <<"invoice_", k, ".png">>

\* The source directories explored: absent, or 0..MaxFiles entries.
RealDirs ==
    {NoDir} \cup
    {Dir(files) :
        files \in UNION {[{RealName(k) : k \in 1..m} -> Images] : m \in 0..MaxFiles}}

\* ------------------------------------------------------------------ state
VARIABLES
    fs,         \* directory -> [exists, files: entry name -> raster]
    origin,     \* path written by the driver -> [gen, src] of its last write
    accessed,   \* the <<call, directory>> pairs made so far
    runs,       \* number of invocations started
    targets,    \* the target counts of the invocations started
    pc,         \* per process: "idle", "loop", "done", "failed"
    n,          \* per process: the target count of its invocation
    gen,        \* per process: the number of its invocation
    before,     \* per process: fs when its invocation started
    selected,   \* per process: the sampled sequence
    i,          \* per process: the loop index
    wrote,      \* per process: the <<path, source name>> pairs it saved
    method,     \* per process: the operator drawn for the latest image
    again,      \* per process: that operator is also the one drawn just before
    last,       \* per process: result of its latest operator call
    err,        \* per process: the exception that ended the invocation
    reported    \* per process: the count printed in the summary

vars == <<fs, origin, accessed, runs, targets, pc, n, gen, before, selected,
          i, wrote, method, again, last, err, reported>>

NoCall == [raised |-> FALSE, w |-> 0, h |-> 0, changed |-> FALSE]
NotReported == -1

\* The module body has run on a fresh corpus: os.makedirs has created
\* TAMPERED_DIR, still empty; REAL_DIR is whatever the corpus provides.
Init ==
    /\ \E real \in RealDirs :
          fs = [d \in {REAL_DIR, TAMPERED_DIR} |->
                   IF d = REAL_DIR THEN real ELSE Dir(<<>>)]
    /\ origin = <<>>
    /\ accessed = {}
    /\ runs = 0
    /\ targets = {}
    /\ pc = [p \in Procs |-> "idle"]
    /\ n = [p \in Procs |-> 0]
    /\ gen = [p \in Procs |-> 0]
    /\ before = [p \in Procs |-> fs]
    /\ selected = [p \in Procs |-> <<>>]
    /\ i = [p \in Procs |-> 0]
    /\ wrote = [p \in Procs |-> <<>>]
    /\ method = [p \in Procs |-> "none"]
    /\ again = [p \in Procs |-> FALSE]
    /\ last = [p \in Procs |-> NoCall]
    /\ err = [p \in Procs |-> "none"]
    /\ reported = [p \in Procs |-> NotReported]

\* ----------------------------------------------------------- tamper_image
\* tamper_image(img_path, save_path) on file system fsys: the possible
\* outcomes [err, method, result, fs].  The file saved keeps the page of the
\* source raster at the size the operator returned; whether the overlay
\* changed a pixel of it is result.changed.
tamper_image(fsys, img_path, save_path) ==
    LET img == Open(fsys, img_path)
    IN  IF ~img.ok
        THEN {[err |-> "UnidentifiedImageError", method |-> "none",
               result |-> NoCall, fs |-> fsys]}
        ELSE UNION {
               {IF r.raised
                THEN [err |-> "ValueError", method |-> m, result |-> r,
                      fs |-> fsys]
                ELSE [err |-> "none", method |-> m, result |-> r,
                      fs |-> Save(fsys, save_path,
                                  [img EXCEPT !.w = r.w, !.h = r.h])] :
                   r \in Results[img][m]} :
               m \in RandomChoice(tamper_methods)}

\* The file-system calls tamper_image makes.
TamperCalls(img_path, save_path, out) ==
    {<<"open", img_path[1]>>} \cup
    (IF out.err = "none" THEN {<<"save", save_path[1]>>} ELSE {})

\* ----------------------------------------------- generate_tampered_images
\* No lock, pid file or directory check precedes the listing: a process may
\* start an invocation whenever it is not inside one.
MayStartLocked(p) ==
    /\ pc[p] # "loop"
    /\ \A q \in Procs \ {p} : pc[q] # "loop"

MayStart(p) == pc[p] # "loop"

\* Lines 94-95: list the source directory and sample from it.
Generate(p, target) ==
    /\ MayStart(p)
    /\ runs' = runs + 1
    /\ targets' = targets \cup {target}
    /\ n' = [n EXCEPT ![p] = target]
    /\ gen' = [gen EXCEPT ![p] = runs + 1]
    /\ before' = [before EXCEPT ![p] = fs]
    /\ accessed' = accessed \cup {<<"listdir", REAL_DIR>>}
    /\ i' = [i EXCEPT ![p] = 0]
    /\ wrote' = [wrote EXCEPT ![p] = <<>>]
    /\ method' = [method EXCEPT ![p] = "none"]
    /\ again' = [again EXCEPT ![p] = FALSE]
    /\ last' = [last EXCEPT ![p] = NoCall]
    /\ reported' = [reported EXCEPT ![p] = NotReported]
    /\ IF ~fs[REAL_DIR].exists
       THEN /\ pc' = [pc EXCEPT ![p] = "failed"]
            /\ err' = [err EXCEPT ![p] = "FileNotFoundError"]
            /\ selected' = [selected EXCEPT ![p] = <<>>]
       ELSE LET real_imgs == ListDir(fs, REAL_DIR)
            IN  /\ \E s \in Sample(real_imgs, Min(target, Cardinality(real_imgs))) :
                      selected' = [selected EXCEPT ![p] = s]
                /\ pc' = [pc EXCEPT ![p] = "loop"]
                /\ err' = [err EXCEPT ![p] = "none"]
    /\ UNCHANGED <<fs, origin>>

\* Lines 96-99: one iteration of the loop, the call of tamper_image included.
\* method, again and last are history variables: they record the call when
\* `observe` holds and change nothing of what the driver does.
Tamper(p, observe) ==
    /\ pc[p] = "loop"
    /\ i[p] < Len(selected[p])
    /\ LET filename == selected[p][i[p] + 1]
           real_path == RealPath(filename)
           tamper_path == TamperPath(i[p])
       IN  \E out \in tamper_image(fs, real_path, tamper_path) :
              /\ fs' = out.fs
              /\ accessed' = accessed \cup TamperCalls(real_path, tamper_path, out)
              /\ IF observe
                 THEN /\ last' = [last EXCEPT ![p] = out.result]
                      /\ method' = [method EXCEPT ![p] = out.method]
                      /\ again' = [again EXCEPT ![p] =
                                      out.method # "none" /\ out.method = method[p]]
                 ELSE UNCHANGED <<last, method, again>>
              /\ IF out.err = "none"
                 THEN /\ i' = [i EXCEPT ![p] = @ + 1]
                      /\ wrote' = [wrote EXCEPT ![p] = Append(@, <<tamper_path, filename>>)]
                      /\ origin' = [q \in (DOMAIN origin) \cup {tamper_path} |->
                                       IF q = tamper_path
                                       THEN [gen |-> gen[p], src |-> filename]
                                       ELSE origin[q]]
                      /\ UNCHANGED <<pc, err>>
                 ELSE /\ pc' = [pc EXCEPT ![p] = "failed"]
                      /\ err' = [err EXCEPT ![p] = out.err]
                      /\ UNCHANGED <<i, wrote, origin>>
    /\ UNCHANGED <<runs, targets, n, gen, before, selected, reported>>

\* Line 100: the summary, after the loop.
Report(p) ==
    /\ pc[p] = "loop"
    /\ i[p] = Len(selected[p])
    /\ reported' = [reported EXCEPT ![p] = Len(selected[p])]
    /\ pc' = [pc EXCEPT ![p] = "done"]
    /\ UNCHANGED <<fs, origin, accessed, runs, targets, n, gen, before,
                   selected, i, wrote, method, again, last, err>>

\* One caller runs the script again and again, each run to its end.
SeqGenerate ==
    /\ runs < MaxRuns
    /\ \E p \in SeqCallers, target \in 0..MaxN : Generate(p, target)
SeqTamper == \E p \in SeqCallers : Tamper(p, FALSE)
SeqReport == \E p \in SeqCallers : Report(p)

Next == SeqGenerate \/ SeqTamper \/ SeqReport

Spec == Init /\ [][Next]_vars

\* One run of the script, every call of tamper_image observed.
ObsGenerate ==
    /\ runs = 0
    /\ \E p \in SeqCallers, target \in 0..MaxN : Generate(p, target)
ObsTamper == \E p \in SeqCallers : Tamper(p, TRUE)
ObsReport == \E p \in SeqCallers : Report(p)

NextCalls == ObsGenerate \/ ObsTamper \/ ObsReport

SpecCalls == Init /\ [][NextCalls]_vars

\* Two processes run the script against the same directories, once each.
ConcGenerate ==
    \E p \in Procs, target \in 0..MaxN : pc[p] = "idle" /\ Generate(p, target)
ConcTamper == \E p \in Procs : Tamper(p, FALSE)
ConcReport == \E p \in Procs : Report(p)

NextConc == ConcGenerate \/ ConcTamper \/ ConcReport

SpecConc == Init /\ [][NextConc]_vars

\* ================================================================ claims
OutName(k) == <<"tampered_", k, ".jpg">>
OutPath(k) == <<TAMPERED_DIR, OutName(k)>>
OutFiles == fs[TAMPERED_DIR].files
SourceFiles == fs[REAL_DIR].files
M == Cardinality(DOMAIN SourceFiles)
K(p) == Min(n[p], M)
Finished(p) == pc[p] \in {"done", "failed"}
SixOperators ==
    {"apply_black_box", "apply_fake_text", "apply_blur_patch",
     "apply_whiteout", "overlay_random_shape", "apply_fake_signature"}
\* The source entry of the latest tamper_image call of process p.
LatestSource(p) ==
    IF pc[p] = "failed" THEN selected[p][i[p] + 1] ELSE selected[p][i[p]]
Largest(S) == CHOOSE v \in S : \A u \in S : u <= v

\* C1: a completed call of generate_tampered_images(N) on a source
\* directory of M entries has written exactly k = min(N, M) files, named
\* tampered_0.jpg .. tampered_{k-1}.jpg in the order of the sampled
\* sequence, and the summary reports k.
C1_ExactCount ==
    \A p \in Procs :
        pc[p] = "done" =>
            /\ Len(wrote[p]) = K(p)
            /\ \A j \in 1..K(p) :
                  /\ wrote[p][j][1] = OutPath(j - 1)
                  /\ wrote[p][j][2] = selected[p][j]
                  /\ OutName(j - 1) \in DOMAIN OutFiles
            /\ reported[p] = K(p)

C1_Witness ==
    \E p \in Procs :
        /\ pc[p] = "done"
        /\ n[p] > M
        /\ M >= 1
        /\ reported[p] = M
        /\ Len(wrote[p]) = M

\* C2: within one invocation no source image is used for two output
\* indices: the files the invocation writes have distinct names and derive
\* from distinct source entries.
C2_DistinctSources ==
    \A p \in Procs :
        \A a, b \in 1..Len(wrote[p]) :
            a # b => /\ wrote[p][a][1] # wrote[p][b][1]
                     /\ wrote[p][a][2] # wrote[p][b][2]

C2_Witness ==
    \E p \in Procs :
        /\ Len(wrote[p]) >= 2
        /\ wrote[p][1][2] # wrote[p][2][2]

\* C3: an invocation that ends in a fatal condition has produced no
\* tampered image, and an invocation leaves fewer than N written files only
\* when it completed with M < N.
C3_AllOrNothing ==
    \A p \in Procs :
        /\ pc[p] = "failed" => Len(wrote[p]) = 0
        /\ (Finished(p) /\ Len(wrote[p]) < n[p]) =>
               \/ pc[p] = "failed" /\ Len(wrote[p]) = 0
               \/ pc[p] = "done" /\ M < n[p]

\* C4 as stated: an invocation deletes or modifies no file that existed
\* when it started, in the source or in the output directory, and never
\* reads the output directory.
C4_NoExistingFileTouched ==
    \A p \in Procs :
        gen[p] > 0 =>
            /\ fs[REAL_DIR] = before[p][REAL_DIR]
            /\ \A name \in DOMAIN before[p][TAMPERED_DIR].files :
                  /\ name \in DOMAIN OutFiles
                  /\ OutFiles[name] = before[p][TAMPERED_DIR].files[name]
            /\ <<"listdir", TAMPERED_DIR>> \notin accessed
            /\ <<"open", TAMPERED_DIR>> \notin accessed

\* C4 amended: an invocation deletes no file, leaves every source file as
\* it was, changes an existing output file only at a name
\* tampered_0 .. tampered_{k-1} that it writes itself, and never reads the
\* output directory.
C4_OnlyOwnIndicesOverwritten ==
    \A p \in Procs :
        gen[p] > 0 =>
            /\ fs[REAL_DIR] = before[p][REAL_DIR]
            /\ \A name \in DOMAIN before[p][TAMPERED_DIR].files :
                  /\ name \in DOMAIN OutFiles
                  /\ OutFiles[name] # before[p][TAMPERED_DIR].files[name] =>
                        \E j \in 1..Len(wrote[p]) :
                            /\ j <= K(p)
                            /\ name = OutName(j - 1)
                            /\ wrote[p][j][1] = OutPath(j - 1)
            /\ <<"listdir", TAMPERED_DIR>> \notin accessed
            /\ <<"open", TAMPERED_DIR>> \notin accessed

C4_Witness ==
    \E p \in Procs :
        /\ pc[p] = "done"
        /\ \E name \in DOMAIN before[p][TAMPERED_DIR].files :
              OutFiles[name] # before[p][TAMPERED_DIR].files[name]
        /\ \E name \in DOMAIN before[p][TAMPERED_DIR].files :
              /\ name \notin {OutName(j) : j \in 0..(K(p) - 1)}
              /\ OutFiles[name] = before[p][TAMPERED_DIR].files[name]

\* C5: when every invocation so far had the same target count N, a
\* completed invocation leaves the output directory with exactly the k =
\* min(N, M) names tampered_0 .. tampered_{k-1}, each holding what this
\* invocation made of its own sampled source: the files of the prior run
\* are overwritten and no other name appears.
C5_StructurallyIdempotent ==
    \A p \in Procs :
        (pc[p] = "done" /\ targets = {n[p]}) =>
            /\ DOMAIN OutFiles = {OutName(j) : j \in 0..(K(p) - 1)}
            /\ \A j \in 1..K(p) :
                  /\ OutFiles[OutName(j - 1)] = SourceFiles[selected[p][j]]
                  /\ origin[OutPath(j - 1)] = [gen |-> gen[p], src |-> selected[p][j]]

C5_Witness ==
    \E p \in Procs :
        /\ pc[p] = "done"
        /\ targets = {n[p]}
        /\ gen[p] >= 2
        /\ K(p) >= 1
        /\ \E j \in 1..K(p) :
              /\ OutName(j - 1) \in DOMAIN before[p][TAMPERED_DIR].files
              /\ before[p][TAMPERED_DIR].files[OutName(j - 1)] # OutFiles[OutName(j - 1)]

\* C6: on every decoded image each operator returns, without raising, an
\* image of the width and height of its input.
C6_OperatorsTotal ==
    \A p \in Procs :
        /\ err[p] # "ValueError"
        /\ method[p] # "none" =>
              /\ ~last[p].raised
              /\ last[p].w = SourceFiles[LatestSource(p)].w
              /\ last[p].h = SourceFiles[LatestSource(p)].h

\* C7: every tampered image produced differs from its source image in at
\* least one pixel.
C7_NeverNoOp ==
    \A p \in Procs :
        (method[p] # "none" /\ ~last[p].raised) => last[p].changed

\* C8: tamper_image applies exactly one operator of the six, and whatever
\* was drawn for the images before, each of the six can be the one drawn
\* for the next decodable image of the batch.
C8_AnyOperatorEachTime ==
    \A p \in SeqCallers :
        /\ method[p] \in SixOperators \cup {"none"}
        /\ (/\ pc[p] = "loop"
            /\ i[p] < Len(selected[p])
            /\ SourceFiles[selected[p][i[p] + 1]].ok) =>
               \A m \in SixOperators :
                   ENABLED (Tamper(p, TRUE) /\ method'[p] = m)

C8_Witness ==
    \E p \in SeqCallers :
        /\ again[p]
        /\ method[p] \in SixOperators
        /\ Len(wrote[p]) >= 2

\* C9 as stated: when an invocation with target count N completes, the
\* output directory holds at most N files, each from a distinct source.
C9_LatestCorpusOnly ==
    \A p \in Procs :
        pc[p] = "done" =>
            /\ Cardinality(DOMAIN OutFiles) <= n[p]
            /\ \A a, b \in DOMAIN OutFiles :
                  a # b => origin[<<TAMPERED_DIR, a>>].src # origin[<<TAMPERED_DIR, b>>].src

\* C9 amended: when an invocation with target count N completes, the files
\* it wrote are tampered_0 .. tampered_{k-1}, k = min(N, M) <= N, each from
\* a distinct source; every other file of the output directory is left
\* from an earlier invocation, and the directory holds at most as many
\* files as the largest target count used so far.
C9_OwnFilesBounded ==
    \A p \in Procs :
        pc[p] = "done" =>
            LET mine == {name \in DOMAIN OutFiles :
                            origin[<<TAMPERED_DIR, name>>].gen = gen[p]}
            IN  /\ mine = {OutName(j) : j \in 0..(K(p) - 1)}
                /\ Cardinality(mine) <= n[p]
                /\ \A a, b \in mine :
                      a # b => origin[<<TAMPERED_DIR, a>>].src
                                   # origin[<<TAMPERED_DIR, b>>].src
                /\ \A name \in (DOMAIN OutFiles) \ mine :
                      origin[<<TAMPERED_DIR, name>>].gen < gen[p]
                /\ Cardinality(DOMAIN OutFiles) <= Largest(targets)

C9_Witness ==
    \E p \in Procs :
        /\ pc[p] = "done"
        /\ Cardinality(DOMAIN OutFiles) > n[p]
        /\ K(p) >= 1
        /\ \E a, b \in DOMAIN OutFiles :
              /\ a # b
              /\ origin[<<TAMPERED_DIR, a>>].src = origin[<<TAMPERED_DIR, b>>].src

\* C10: nothing makes one invocation wait for another: a process that is
\* not inside an invocation can start one, and an invocation inside its
\* loop can write its next file, whatever the other process is doing.
C10_NoCoordination ==
    \A p \in Procs :
        /\ pc[p] = "idle" => \A target \in 0..MaxN : ENABLED Generate(p, target)
        /\ (pc[p] = "loop" /\ i[p] < Len(selected[p])) => ENABLED Tamper(p, FALSE)
        /\ (pc[p] = "loop" /\ i[p] = Len(selected[p])) => ENABLED Report(p)

\* Both invocations completed with the same target count, and the
\* directory holds files of both, two of them from the same source.
C10_Witness ==
    /\ \A p \in Procs : pc[p] = "done"
    /\ n[1] = n[2]
    /\ \E a, b \in DOMAIN OutFiles :
          /\ a # b
          /\ origin[<<TAMPERED_DIR, a>>].gen # origin[<<TAMPERED_DIR, b>>].gen
          /\ origin[<<TAMPERED_DIR, a>>].src = origin[<<TAMPERED_DIR, b>>].src
====
